---- MODULE Spec2Model ----
(***************************************************************************)
(* Model of the oneshot starter app: the chat stream adapter (POST         *)
(* /api/chat and the chat / chatStream server functions) and the           *)
(* PocketBase session accessor (createClient, createServerClient, the      *)
(* auth helpers).                                                          *)
(***************************************************************************)
EXTENDS Integers, Sequences, FiniteSets, TLC

(***************************************************************************)
(* Bounds of the model.                                                    *)
(***************************************************************************)
\* longest remote completion stream, in fragments
MaxFragments == 3
\* handles (PocketBase instances) constructed in one behaviour
MaxHandles == 3
\* auth operations in flight at once
MaxPending == 2
\* createClient / createServerClient calls counted in a server runtime
MaxServerCalls == 3

\* queryFn calls one component starts
MaxFetches == 3

\* mutationFn calls one component starts
MaxMutations == 3

\* deduct_credits / add_credits calls in progress at one time
MaxSqlCalls == 2

\* calls that can still write a row of credit_transactions
MaxTransactions == 3

VARIABLES
  \* ---- chat stream adapter ----
  mode,         \* which entry point runs: "none", "post", "chat", "chatStream"
  body,         \* the request body / server-function data of the invocation
  pc,           \* position of the handler: "idle", "awaitCreate", "streaming", "done"
  remoteCalls,  \* completions.create() calls issued by this invocation
  remoteReq,    \* the request handed to completions.create()
  remote,       \* fragments the remote endpoint has emitted so far
  remoteState,  \* "none", "pending", "open", "ended", "failed", "rejected"
  consumed,     \* fragments the for-await loop has taken
  written,      \* chunks enqueued on the ReadableStream controller, in order
  channel,      \* the output channel: "none", "open", "closed", "errored"
  closeCount,   \* controller.close() calls
  fullContent,  \* chatStream's accumulator
  response,     \* what the caller got: HTTP response or server-function outcome
  logged,       \* console.error("Chat API error:", ...) ran
  \* ---- session accessor ----
  runtime,      \* "browser" (window is defined) or "server"
  cookieAccess, \* "ok", or "denied": document.cookie throws a SecurityError
  docCookie,    \* the pb_auth entry of document.cookie
  pb,           \* the module-level singleton of client.ts: 0 is null
  stores,       \* authStore (token, record) of each constructed handle
  listeners,    \* onChange callbacks registered on each handle
  returned,     \* handles that createClient / createServerClient returned
  serverCalls,  \* createClient / createServerClient calls in a server runtime
  ops,          \* auth operations waiting for the backend
  lastOp,       \* how the most recently settled auth helper ended
  touched,      \* the handle whose authStore the last step wrote through
  \* ---- usePocketBase / useAuth (hooks.ts) of one component ----
  phase,        \* "none", "rendered" (no effect has run), "mounted", "crashed"
  mounted,      \* usePocketBase: useState(false)
  hookPb,       \* usePocketBase: useState<PocketBase | null>(null); 0 is null
  user,         \* useAuth: useState<RecordModel | null>(null)
  loading,      \* useAuth: useState(true)
  navigated,    \* the target of the last navigate() call, "none" before any
  authDue,      \* useAuth's effect is scheduled with isReady true
  checked,      \* useAuth's effect has read pb.authStore.isValid
  \* ---- isAuthenticated / getCurrentUser (auth.ts) ----
  lastRead,     \* what the most recent of these calls returned
  \* ---- updateSession (middleware.ts) ----
  edge,         \* the last request updateSession handled and its response
  \* ---- a component using usePocketBaseQuery / usePocketBaseMutation ----
  consumer,     \* "none", "rendered" (no effect has run), "mounted",
                \* "unmounted", "crashed"
  consumerPb,   \* usePocketBase of the component: its pb state; 0 is null
  qData,        \* usePocketBaseQuery: data; 0 is null, k the result of fetch k
  qLoading,     \* usePocketBaseQuery: useState(true)
  qError,       \* usePocketBaseQuery: error; 0 is null, k the failure of fetch k
  fetches,      \* the queryFn calls started so far, in the order of their start
  lateUpdates,  \* fetches that called a state setter after the teardown
  mLoading,     \* usePocketBaseMutation: useState(false)
  mError,       \* usePocketBaseMutation: error; 0 is null
  mutations,    \* the mutationFn calls started so far
  mLast,        \* what the mutate call that settled last returned
  \* ---- credits (SQL functions) ----
  schema,               \* how the tables were created: "file" or "complete"
  user_credits,         \* the row of one user in public.user_credits
  credit_transactions,  \* the rows of public.credit_transactions
  sqlCalls              \* the deduct_credits / add_credits calls in progress

chatVars == <<mode, body, pc, remoteCalls, remoteReq, remote, remoteState,
              consumed, written, channel, closeCount, fullContent, response,
              logged>>

sessionVars == <<runtime, cookieAccess, docCookie, pb, stores, listeners,
                 returned, serverCalls, ops, lastOp, touched>>

uiVars == <<phase, mounted, hookPb, user, loading, navigated, authDue, checked>>

consumerVars == <<consumer, consumerPb>>

queryVars == <<qData, qLoading, qError, fetches, lateUpdates>>

mutationVars == <<mLoading, mError, mutations, mLast>>

creditVars == <<schema, user_credits, credit_transactions, sqlCalls>>

\* the variables of the data hooks and of the credits functions
dataVars == <<consumerVars, queryVars, mutationVars, creditVars>>

vars == <<chatVars, sessionVars, uiVars, edge, lastRead, dataVars>>

Null == "null"

(***************************************************************************)
(* Texts are sequences of characters; the output channel carries bytes.    *)
(***************************************************************************)
Chars == {"H", "e", "l", "o", "eAcute"}

\* TextEncoder.encode of one character (UTF-8)
Utf8(c) ==
  CASE c = "H" -> <<72>>
    [] c = "e" -> <<101>>
    [] c = "l" -> <<108>>
    [] c = "o" -> <<111>>
    [] c = "eAcute" -> <<195, 169>>

RECURSIVE Encode(_)
\* encoder.encode(content): the UTF-8 bytes of a text
Encode(text) ==
  IF text = <<>> THEN <<>> ELSE Utf8(Head(text)) \o Encode(Tail(text))

RECURSIVE Decode(_)
\* the text a UTF-8 byte sequence stands for (what the caller reads back)
Decode(bytes) ==
  IF bytes = <<>> THEN <<>>
  ELSE IF Head(bytes) = 195 THEN <<"eAcute">> \o Decode(Tail(Tail(bytes)))
  ELSE LET c == CHOOSE x \in Chars : Utf8(x) = <<Head(bytes)>>
       IN <<c>> \o Decode(Tail(bytes))

(***************************************************************************)
(* Remote completion endpoint: streaming fragments                         *)
(* {choices: [{delta: {content}}]}.                                        *)
(***************************************************************************)
NoChoice == [choice |-> FALSE, delta |-> FALSE, content |-> <<>>]  \* choices is empty
NoDelta  == [choice |-> TRUE,  delta |-> FALSE, content |-> <<>>]  \* no delta / no content
TextFragment(t) == [choice |-> TRUE, delta |-> TRUE, content |-> t]

Fragments ==
  {NoChoice, NoDelta, TextFragment(<<>>), TextFragment(<<"H", "e">>),
   TextFragment(<<"l", "l", "o">>), TextFragment(<<"eAcute">>)}

\* chunk.choices[0]?.delta?.content: undefined when a link of the chain is absent
DeltaContent(chunk) ==
  IF chunk.choice /\ chunk.delta
    THEN [defined |-> TRUE, text |-> chunk.content]
    ELSE [defined |-> FALSE, text |-> <<>>]

\* if (content): undefined, null and "" are falsy
Truthy(content) == content.defined /\ content.text # <<>>

(***************************************************************************)
(* Request bodies.  json: what request.json() yields.                      *)
(***************************************************************************)
defaultModel == "anthropic/claude-sonnet-4"

Bodies ==
  {[json |-> "invalid", messages |-> "absent", model |-> "absent"],
   [json |-> "null",    messages |-> "absent", model |-> "absent"],
   [json |-> "scalar",  messages |-> "absent", model |-> "absent"]}
  \cup [json : {"object"},
        messages : {"absent", "nonarray", "empty", "list"},
        model : {"absent", "custom"}]

\* `messages` is missing or is not a sequence
Malformed(b) == b.json # "object" \/ b.messages \in {"absent", "nonarray"}

\* const { messages, model = defaultModel } = <value> throws on null/undefined
DestructureThrows(b) == b.json \in {"invalid", "null"}

\* !messages || !Array.isArray(messages)
FailsValidation(b) == b.json # "object" \/ b.messages \in {"absent", "nonarray"}

\* mutant of ModelOf: the request's model is ignored
ModelOfAlwaysDefault(b) == defaultModel

\* const { messages, model = defaultModel } = data
ModelOf(b) == IF b.model = "absent" THEN defaultModel ELSE b.model

NoResponse == [kind |-> "none"]
HttpJson(status, msg) ==
  [kind |-> "http", status |-> status, contentType |-> "application/json",
   error |-> msg]
HttpStream ==
  [kind |-> "http", status |-> 200,
   contentType |-> "text/plain; charset=utf-8", error |-> Null]
FnReturn(content) == [kind |-> "return", content |-> content]
NoRequest == [model |-> "", messages |-> "absent", stream |-> FALSE]
FnThrow(stage, msg) == [kind |-> "throw", stage |-> stage, error |-> msg]

InitChat ==
  /\ mode = "none"
  /\ body = [json |-> "null", messages |-> "absent", model |-> "absent"]
  /\ pc = "idle"
  /\ remoteCalls = 0
  /\ remoteReq = NoRequest
  /\ remote = <<>>
  /\ remoteState = "none"
  /\ consumed = 0
  /\ written = <<>>
  /\ channel = "none"
  /\ closeCount = 0
  /\ fullContent = <<>>
  /\ response = NoResponse
  /\ logged = FALSE

(***************************************************************************)
(* POST /api/chat                                                          *)
(***************************************************************************)
\* mutant of Enqueue: the chunk is put at the head of the queue
EnqueueFront(queue, chunk) == <<chunk>> \o queue

\* controller.enqueue(chunk): the chunk joins the end of the stream's queue
Enqueue(queue, chunk) == Append(queue, chunk)

\* the catch block of POST: log, then the generic 500
CatchResponse == HttpJson(500, "Failed to generate response")

\* the validation branch of POST
ValidationResponse == HttpJson(400, "Messages array is required")

\* completions.create({model, messages, stream})
IssueCreate(b, streaming) ==
  /\ remoteCalls' = remoteCalls + 1
  /\ remoteReq' = [model |-> ModelOf(b), messages |-> b.messages,
                   stream |-> streaming]
  /\ remoteState' = "pending"

\* POST, from the request's arrival to its first remote call or early return
POST(b) ==
  /\ pc = "idle"
  /\ mode' = "post"
  /\ body' = b
  /\ IF DestructureThrows(b)
       THEN /\ logged' = TRUE
            /\ response' = CatchResponse
            /\ pc' = "done"
            /\ UNCHANGED <<remoteCalls, remoteReq, remoteState>>
       ELSE IF FailsValidation(b)
         THEN /\ response' = ValidationResponse
              /\ pc' = "done"
              /\ UNCHANGED <<remoteCalls, remoteReq, remoteState, logged>>
         ELSE /\ IssueCreate(b, TRUE)
              /\ pc' = "awaitCreate"
              /\ UNCHANGED <<response, logged>>
  /\ UNCHANGED <<remote, consumed, written, channel, closeCount, fullContent>>
  /\ UNCHANGED <<sessionVars, uiVars, edge, lastRead, dataVars>>

\* create() resolved: the ReadableStream is built, start() begins to run and
\* the 200 response is returned
PostCreateResolved ==
  /\ mode = "post" /\ pc = "awaitCreate"
  /\ remoteState' = "open"
  /\ channel' = "open"
  /\ response' = HttpStream
  /\ pc' = "streaming"
  /\ UNCHANGED <<mode, body, remoteCalls, remoteReq, remote, consumed, written,
                 closeCount, fullContent, logged>>
  /\ UNCHANGED <<sessionVars, uiVars, edge, lastRead, dataVars>>

\* create() rejected (network error, non-success status): the catch block
PostCreateRejected ==
  /\ mode = "post" /\ pc = "awaitCreate"
  /\ remoteState' = "rejected"
  /\ logged' = TRUE
  /\ response' = CatchResponse
  /\ pc' = "done"
  /\ UNCHANGED <<mode, body, remoteCalls, remoteReq, remote, consumed, written,
                 channel, closeCount, fullContent>>
  /\ UNCHANGED <<sessionVars, uiVars, edge, lastRead, dataVars>>

\* one turn of `for await (const chunk of stream)` in start()
PostReadFragment ==
  /\ mode = "post" /\ pc = "streaming"
  /\ consumed < Len(remote)
  /\ LET content == DeltaContent(remote[consumed + 1])
     IN written' = IF Truthy(content)
                     THEN Enqueue(written, Encode(content.text))
                     ELSE written
  /\ consumed' = consumed + 1
  /\ UNCHANGED <<mode, body, pc, remoteCalls, remoteReq, remote, remoteState,
                 channel, closeCount, fullContent, response, logged>>
  /\ UNCHANGED <<sessionVars, uiVars, edge, lastRead, dataVars>>

\* mutant of PostStreamEnd: start() returns without closing the controller
PostStreamEndNoClose ==
  /\ mode = "post" /\ pc = "streaming"
  /\ consumed = Len(remote) /\ remoteState = "ended"
  /\ pc' = "done"
  /\ UNCHANGED <<mode, body, remoteCalls, remoteReq, remote, remoteState,
                 consumed, written, channel, closeCount, fullContent, response,
                 logged>>
  /\ UNCHANGED <<sessionVars, uiVars, edge, lastRead, dataVars>>

\* the loop ends with the remote stream: controller.close()
PostStreamEnd ==
  /\ mode = "post" /\ pc = "streaming"
  /\ consumed = Len(remote) /\ remoteState = "ended"
  /\ channel' = "closed"
  /\ closeCount' = closeCount + 1
  /\ pc' = "done"
  /\ UNCHANGED <<mode, body, remoteCalls, remoteReq, remote, remoteState,
                 consumed, written, fullContent, response, logged>>
  /\ UNCHANGED <<sessionVars, uiVars, edge, lastRead, dataVars>>

\* the iterator throws inside start(): start()'s promise rejects, which errors
\* the stream; the try/catch of POST has already been left
PostStreamError ==
  /\ mode = "post" /\ pc = "streaming"
  /\ consumed = Len(remote) /\ remoteState = "failed"
  /\ channel' = "errored"
  /\ pc' = "done"
  /\ UNCHANGED <<mode, body, remoteCalls, remoteReq, remote, remoteState,
                 consumed, written, closeCount, fullContent, response, logged>>
  /\ UNCHANGED <<sessionVars, uiVars, edge, lastRead, dataVars>>

(***************************************************************************)
(* The chat and chatStream server functions (createServerFn).              *)
(***************************************************************************)
\* data the framework can hand to a validator (it has parsed the payload)
FnData == {b \in Bodies : b.json # "invalid"}

\* `req.messages` on null/undefined is a TypeError, thrown inside the validator
ValidatorOutcome(d) ==
  IF d.json = "null" THEN FnThrow("validator", "TypeError")
  ELSE IF FailsValidation(d)
    THEN FnThrow("validator", "Messages array is required")
    ELSE FnReturn(<<>>)

\* response.choices[0]?.message?.content || ""
AggregatedContent(resp) ==
  IF Truthy(DeltaContent(resp)) THEN DeltaContent(resp).text ELSE <<>>

\* validator, then the handler up to its remote call
serverFn(fn, d) ==
  /\ pc = "idle"
  /\ mode' = fn
  /\ body' = d
  /\ IF ValidatorOutcome(d).kind = "throw"
       THEN /\ response' = ValidatorOutcome(d)
            /\ pc' = "done"
            /\ UNCHANGED <<remoteCalls, remoteReq, remoteState>>
       ELSE /\ IssueCreate(d, fn = "chatStream")
            /\ pc' = "awaitCreate"
            /\ UNCHANGED response
  /\ UNCHANGED <<remote, consumed, written, channel, closeCount, fullContent,
                 logged>>
  /\ UNCHANGED <<sessionVars, uiVars, edge, lastRead, dataVars>>

chat(d) == serverFn("chat", d)

chatStream(d) == serverFn("chatStream", d)

\* chat: the aggregated response arrived (kept in `remote` as its one element)
ChatResolved(resp) ==
  /\ mode = "chat" /\ pc = "awaitCreate"
  /\ remoteState' = "ended"
  /\ remote' = <<resp>>
  /\ response' = FnReturn(AggregatedContent(resp))
  /\ pc' = "done"
  /\ UNCHANGED <<mode, body, remoteCalls, remoteReq, consumed, written,
                 channel, closeCount, fullContent, logged>>
  /\ UNCHANGED <<sessionVars, uiVars, edge, lastRead, dataVars>>

\* chatStream: create() resolved with the stream
FnCreateResolved ==
  /\ mode = "chatStream" /\ pc = "awaitCreate"
  /\ remoteState' = "open"
  /\ pc' = "streaming"
  /\ UNCHANGED <<mode, body, remoteCalls, remoteReq, remote, consumed, written,
                 channel, closeCount, fullContent, response, logged>>
  /\ UNCHANGED <<sessionVars, uiVars, edge, lastRead, dataVars>>

\* create() rejected: the handler has no try/catch, the function throws
FnCreateRejected ==
  /\ mode \in {"chat", "chatStream"} /\ pc = "awaitCreate"
  /\ remoteState' = "rejected"
  /\ response' = FnThrow("handler", "remote error")
  /\ pc' = "done"
  /\ UNCHANGED <<mode, body, remoteCalls, remoteReq, remote, consumed, written,
                 channel, closeCount, fullContent, logged>>
  /\ UNCHANGED <<sessionVars, uiVars, edge, lastRead, dataVars>>

\* mutant of FnReadFragment: the delta is put in front of the accumulator
FnReadFragmentPrepends ==
  /\ mode = "chatStream" /\ pc = "streaming"
  /\ consumed < Len(remote)
  /\ LET content == DeltaContent(remote[consumed + 1])
     IN fullContent' = IF Truthy(content)
                         THEN content.text \o fullContent
                         ELSE fullContent
  /\ consumed' = consumed + 1
  /\ UNCHANGED <<mode, body, pc, remoteCalls, remoteReq, remote, remoteState,
                 written, channel, closeCount, response, logged>>
  /\ UNCHANGED <<sessionVars, uiVars, edge, lastRead, dataVars>>

\* chatStream: one turn of the collecting loop
FnReadFragment ==
  /\ mode = "chatStream" /\ pc = "streaming"
  /\ consumed < Len(remote)
  /\ LET content == DeltaContent(remote[consumed + 1])
     IN fullContent' = IF Truthy(content)
                         THEN fullContent \o content.text
                         ELSE fullContent
  /\ consumed' = consumed + 1
  /\ UNCHANGED <<mode, body, pc, remoteCalls, remoteReq, remote, remoteState,
                 written, channel, closeCount, response, logged>>
  /\ UNCHANGED <<sessionVars, uiVars, edge, lastRead, dataVars>>

FnStreamEnd ==
  /\ mode = "chatStream" /\ pc = "streaming"
  /\ consumed = Len(remote) /\ remoteState = "ended"
  /\ response' = FnReturn(fullContent)
  /\ pc' = "done"
  /\ UNCHANGED <<mode, body, remoteCalls, remoteReq, remote, remoteState,
                 consumed, written, channel, closeCount, fullContent, logged>>
  /\ UNCHANGED <<sessionVars, uiVars, edge, lastRead, dataVars>>

FnStreamError ==
  /\ mode = "chatStream" /\ pc = "streaming"
  /\ consumed = Len(remote) /\ remoteState = "failed"
  /\ response' = FnThrow("handler", "remote error")
  /\ pc' = "done"
  /\ UNCHANGED <<mode, body, remoteCalls, remoteReq, remote, remoteState,
                 consumed, written, channel, closeCount, fullContent, logged>>
  /\ UNCHANGED <<sessionVars, uiVars, edge, lastRead, dataVars>>

(***************************************************************************)
(* The remote completion endpoint (environment).                           *)
(***************************************************************************)
RemoteEmit(f) ==
  /\ remoteState = "open" /\ remoteReq.stream
  /\ Len(remote) < MaxFragments
  /\ remote' = Append(remote, f)
  /\ UNCHANGED <<mode, body, pc, remoteCalls, remoteReq, remoteState, consumed,
                 written, channel, closeCount, fullContent, response, logged>>
  /\ UNCHANGED <<sessionVars, uiVars, edge, lastRead, dataVars>>

RemoteEnd ==
  /\ remoteState = "open" /\ remoteReq.stream
  /\ remoteState' = "ended"
  /\ UNCHANGED <<mode, body, pc, remoteCalls, remoteReq, remote, consumed,
                 written, channel, closeCount, fullContent, response, logged>>
  /\ UNCHANGED <<sessionVars, uiVars, edge, lastRead, dataVars>>

RemoteFail ==
  /\ remoteState = "open" /\ remoteReq.stream
  /\ remoteState' = "failed"
  /\ UNCHANGED <<mode, body, pc, remoteCalls, remoteReq, remote, consumed,
                 written, channel, closeCount, fullContent, response, logged>>
  /\ UNCHANGED <<sessionVars, uiVars, edge, lastRead, dataVars>>

\* the invocation is over; the next request starts from a clean slate
NextRequest ==
  /\ pc = "done"
  /\ mode' = "none"
  /\ pc' = "idle"
  /\ remoteCalls' = 0
  /\ remoteReq' = NoRequest
  /\ remote' = <<>>
  /\ remoteState' = "none"
  /\ consumed' = 0
  /\ written' = <<>>
  /\ channel' = "none"
  /\ closeCount' = 0
  /\ fullContent' = <<>>
  /\ response' = NoResponse
  /\ logged' = FALSE
  /\ body' = [json |-> "null", messages |-> "absent", model |-> "absent"]
  /\ UNCHANGED <<sessionVars, uiVars, edge, lastRead, dataVars>>

(***************************************************************************)
(* Session accessor: tokens, records and the pb_auth cookie.               *)
(***************************************************************************)
Users == {1, 2}

\* the token the backend issues to a user; "tx" is a token whose exp has passed
TokenOf(u) == IF u = 1 THEN "t1" ELSE "t2"

\* authStore.isValid: a token is present and its exp lies in the future
isValid(token) == token \in {TokenOf(u) : u \in Users}

\* a user record; profile stands for the record's fields beyond id and email:
\* "small" fits a cookie, "large" makes the serialized cookie exceed 4096
\* bytes, "min" is a record exportToCookie has cut down
NoRecord == [id |-> 0, profile |-> "none"]
RecordOf(u) == [id |-> u, profile |-> IF u = 1 THEN "small" ELSE "large"]

\* authStore of a fresh handle
EmptyStore == [token |-> "", record |-> NoRecord]

\* values of the pb_auth cookie
NoCookie == [kind |-> "none", token |-> "", record |-> NoRecord]
MalformedCookie == [kind |-> "malformed", token |-> "", record |-> NoRecord]
AuthCookie(t, r) == [kind |-> "auth", token |-> t, record |-> r]

\* exportToCookie keeps only id, email, collectionId, collectionName and
\* verified of a record whose cookie would be longer than 4096 bytes
CookieRecord(r) ==
  IF r.profile = "large" THEN [id |-> r.id, profile |-> "min"] ELSE r

\* authStore.exportToCookie(): {token, record} serialized, expiring with the
\* token (1970 when the token carries no exp)
exportToCookie(st) ==
  [value |-> AuthCookie(st.token, CookieRecord(st.record)),
   expires |-> IF isValid(st.token) THEN "future" ELSE "past"]

\* document.cookie = <cookie string>: an expired cookie is removed
AssignDocCookie(c) == IF c.expires = "past" THEN NoCookie ELSE c.value

\* authStore.loadFromCookie(): save(data.token || "", data.record || null),
\* with data = {} when the cookie is absent or does not parse
loadFromCookie(cv) ==
  IF cv.kind = "auth" THEN [token |-> cv.token, record |-> cv.record]
  ELSE EmptyStore

\* cookies a browser may hold when the page loads
InitialCookies ==
  {NoCookie, MalformedCookie, AuthCookie("t1", RecordOf(1)),
   AuthCookie("tx", RecordOf(1))}

\* updateSession has handled no request yet
NoEdge == [seen |-> FALSE, cookie |-> NoCookie, deleted |-> FALSE,
           outcome |-> "none"]

\* neither isAuthenticated() nor getCurrentUser() has been called
NoRead == [fn |-> "none", threw |-> FALSE, valid |-> FALSE,
           record |-> NoRecord, h |-> 0]

NoOp ==
  [kind |-> "none", outcome |-> "none", data |-> "absent", user |-> NoRecord,
   error |-> "none", failure |-> "none", fires |-> 0, h |-> 0, calls |-> 0,
   repeat |-> FALSE]

InitSession ==
  /\ runtime \in {"browser", "server"}
  /\ cookieAccess \in (IF runtime = "browser" THEN {"ok", "denied"} ELSE {"ok"})
  /\ docCookie \in (IF runtime = "browser" /\ cookieAccess = "ok"
                      THEN InitialCookies ELSE {NoCookie})
  /\ pb = 0
  /\ stores = <<>>
  /\ listeners = <<>>
  /\ returned = {}
  /\ serverCalls = 0
  /\ ops = <<>>
  /\ lastOp = NoOp
  /\ touched = 0
  /\ phase = "none"
  /\ mounted = FALSE
  /\ hookPb = 0
  /\ user = NoRecord
  /\ loading = TRUE
  /\ navigated = "none"
  /\ authDue = FALSE
  /\ checked = FALSE
  /\ edge = NoEdge
  /\ lastRead = NoRead

(***************************************************************************)
(* createClient / getClient (client.ts).                                   *)
(***************************************************************************)
\* mutant of createClient: the `if (!pb)` test is missing, every browser
\* call builds and installs a new instance
createClientAlwaysNew ==
  IF runtime = "server"
    THEN [threw |-> FALSE, h |-> Len(stores) + 1, pb |-> pb,
          stores |-> Append(stores, EmptyStore),
          listeners |-> Append(listeners, 0)]
  ELSE IF cookieAccess = "denied"
    THEN [threw |-> TRUE, h |-> 0, pb |-> Len(stores) + 1,
          stores |-> Append(stores, EmptyStore),
          listeners |-> Append(listeners, 0)]
  ELSE [threw |-> FALSE, h |-> Len(stores) + 1, pb |-> Len(stores) + 1,
        stores |-> Append(stores, loadFromCookie(docCookie)),
        listeners |-> Append(listeners, 1)]

\* mutant of createClient: the `typeof window` test is missing, a server
\* runtime keeps its instance in the module-level singleton too
createClientNoWindowTest ==
  IF pb # 0
    THEN [threw |-> FALSE, h |-> pb, pb |-> pb, stores |-> stores,
          listeners |-> listeners]
  ELSE [threw |-> FALSE, h |-> Len(stores) + 1, pb |-> Len(stores) + 1,
        stores |-> Append(stores, loadFromCookie(docCookie)),
        listeners |-> Append(listeners, 1)]

\* mutant of createClient: onChange is subscribed on every call, not
\* only when the singleton is built
createClientResubscribes ==
  IF runtime = "server"
    THEN [threw |-> FALSE, h |-> Len(stores) + 1, pb |-> pb,
          stores |-> Append(stores, EmptyStore),
          listeners |-> Append(listeners, 0)]
  ELSE IF pb # 0
    THEN [threw |-> FALSE, h |-> pb, pb |-> pb, stores |-> stores,
          listeners |-> [listeners EXCEPT ![pb] = @ + 1]]
  ELSE IF cookieAccess = "denied"
    THEN [threw |-> TRUE, h |-> 0, pb |-> Len(stores) + 1,
          stores |-> Append(stores, EmptyStore),
          listeners |-> Append(listeners, 0)]
  ELSE [threw |-> FALSE, h |-> Len(stores) + 1, pb |-> Len(stores) + 1,
        stores |-> Append(stores, loadFromCookie(docCookie)),
        listeners |-> Append(listeners, 1)]

\* createClient(): what it returns or throws, and the module state it leaves.
\* Server: a new instance, the singleton untouched.  Browser: the singleton,
\* built on first use: `pb = new PocketBase(..)` is assigned before
\* document.cookie is read, so a SecurityError there leaves the singleton set,
\* without a listener.
createClient ==
  IF runtime = "server"
    THEN [threw |-> FALSE, h |-> Len(stores) + 1, pb |-> pb,
          stores |-> Append(stores, EmptyStore),
          listeners |-> Append(listeners, 0)]
  ELSE IF pb # 0
    THEN [threw |-> FALSE, h |-> pb, pb |-> pb, stores |-> stores,
          listeners |-> listeners]
  ELSE IF cookieAccess = "denied"
    THEN [threw |-> TRUE, h |-> 0, pb |-> Len(stores) + 1,
          stores |-> Append(stores, EmptyStore),
          listeners |-> Append(listeners, 0)]
  ELSE [threw |-> FALSE, h |-> Len(stores) + 1, pb |-> Len(stores) + 1,
        stores |-> Append(stores, loadFromCookie(docCookie)),
        listeners |-> Append(listeners, 1)]

\* bounds on a createClient call of the model
CallAllowed(r) ==
  /\ Len(r.stores) <= MaxHandles
  /\ runtime = "server" => serverCalls < MaxServerCalls

\* the bookkeeping of one createClient call
CallEffect(r) ==
  /\ pb' = r.pb
  /\ listeners' = r.listeners
  /\ returned' = IF r.threw THEN returned ELSE returned \cup {r.h}
  /\ serverCalls' = IF runtime = "server" THEN serverCalls + 1 ELSE serverCalls

\* mutant of CookieAfterChange: the callback does not write the cookie
CookieAfterChangeStale(lst, sts, h, single) == docCookie

\* the cookie after authStore.triggerChange() on handle h: each registered
\* callback runs `document.cookie = pb!.authStore.exportToCookie(..)`
CookieAfterChange(lst, sts, h, single) ==
  IF lst[h] > 0
    THEN AssignDocCookie(exportToCookie(sts[single]))
    ELSE docCookie

\* a direct createClient() / getClient() call
getClient ==
  LET r == createClient
  IN /\ CallAllowed(r)
     /\ CallEffect(r)
     /\ stores' = r.stores
     /\ touched' = 0
     /\ UNCHANGED <<runtime, cookieAccess, docCookie, ops, lastOp>>
     /\ UNCHANGED <<chatVars, uiVars, edge, lastRead, dataVars>>

\* mutant of isAuthenticated: !!pb.authStore.token, the expiry is not
\* looked at
isAuthenticatedTokenPresent ==
  LET r == createClient
  IN /\ CallAllowed(r)
     /\ CallEffect(r)
     /\ stores' = r.stores
     /\ touched' = 0
     /\ lastRead' = [fn |-> "isAuthenticated", threw |-> r.threw,
                     valid |-> IF r.threw THEN FALSE
                               ELSE r.stores[r.h].token # "",
                     record |-> NoRecord, h |-> r.h]
     /\ UNCHANGED <<runtime, cookieAccess, docCookie, ops, lastOp>>
     /\ UNCHANGED <<chatVars, uiVars, edge, dataVars>>

\* isAuthenticated(): createClient().authStore.isValid; a createClient()
\* that throws is not caught here
isAuthenticated ==
  LET r == createClient
  IN /\ CallAllowed(r)
     /\ CallEffect(r)
     /\ stores' = r.stores
     /\ touched' = 0
     /\ lastRead' = [fn |-> "isAuthenticated", threw |-> r.threw,
                     valid |-> IF r.threw THEN FALSE
                               ELSE isValid(r.stores[r.h].token),
                     record |-> NoRecord, h |-> r.h]
     /\ UNCHANGED <<runtime, cookieAccess, docCookie, ops, lastOp>>
     /\ UNCHANGED <<chatVars, uiVars, edge, dataVars>>

\* getCurrentUser(): createClient().authStore.record
getCurrentUser ==
  LET r == createClient
  IN /\ CallAllowed(r)
     /\ CallEffect(r)
     /\ stores' = r.stores
     /\ touched' = 0
     /\ lastRead' = [fn |-> "getCurrentUser", threw |-> r.threw,
                     valid |-> FALSE,
                     record |-> IF r.threw THEN NoRecord
                                ELSE r.stores[r.h].record, h |-> r.h]
     /\ UNCHANGED <<runtime, cookieAccess, docCookie, ops, lastOp>>
     /\ UNCHANGED <<chatVars, uiVars, edge, dataVars>>

(***************************************************************************)
(* createServerClient (server.ts).                                         *)
(***************************************************************************)
HeaderValues ==
  {NoCookie, MalformedCookie, AuthCookie("t1", RecordOf(1)),
   AuthCookie("t2", CookieRecord(RecordOf(2)))}

HeaderPairs ==
  [key : {"pb_auth"}, value : HeaderValues]
    \cup {[key |-> "theme", value |-> MalformedCookie]}

\* cookie headers: up to two `key=value` pairs joined by "; "
CookieHeaders ==
  {<<>>} \cup {<<x>> : x \in HeaderPairs}
         \cup {<<x, y>> : x \in HeaderPairs, y \in HeaderPairs}

RECURSIVE FromEntries(_, _)
\* Object.fromEntries(cookieHeader.split("; ").map(..))[key]: the last pair
\* with that key wins; NoCookie stands for undefined and for an empty value
FromEntries(header, key) ==
  IF header = <<>> THEN NoCookie
  ELSE LET rest == FromEntries(Tail(header), key)
       IN IF \E i \in 1..Len(Tail(header)) : Tail(header)[i].key = key
            THEN rest
            ELSE IF Head(header).key = key THEN Head(header).value
            ELSE NoCookie

\* the authStore createServerClient leaves in the new handle
ServerStore(header) ==
  LET pbAuth == FromEntries(header, "pb_auth")
  IN IF header # <<>> /\ pbAuth # NoCookie
       THEN loadFromCookie(pbAuth)
       ELSE EmptyStore

createServerClient(header) ==
  /\ runtime = "server"
  /\ Len(stores) < MaxHandles
  /\ serverCalls < MaxServerCalls
  /\ stores' = Append(stores, ServerStore(header))
  /\ listeners' = Append(listeners, 0)
  /\ returned' = returned \cup {Len(stores) + 1}
  /\ serverCalls' = serverCalls + 1
  /\ touched' = 0
  /\ UNCHANGED <<runtime, cookieAccess, docCookie, pb, ops, lastOp>>
  /\ UNCHANGED <<chatVars, uiVars, edge, lastRead, dataVars>>

(***************************************************************************)
(* The auth helpers (auth.ts) and useAuth.logout (hooks.ts).               *)
(***************************************************************************)
\* `catch (error) { return { data: null, error } }` ({ error } for signOut)
CatchResult(kind, cause, h) ==
  [kind |-> kind, outcome |-> "resolved",
   data |-> IF kind = "signOut" THEN "absent" ELSE "null", user |-> NoRecord,
   error |-> cause, failure |-> cause, fires |-> 0, h |-> h, calls |-> 0,
   repeat |-> FALSE]

\* mutant of ConstructFailure: createClient() is called before the try block
ConstructFailureEscapes(kind) ==
  [kind |-> kind, outcome |-> "rejected", data |-> "absent", user |-> NoRecord,
   error |-> "none", failure |-> "construct", fires |-> 0, h |-> 0,
   calls |-> 0, repeat |-> FALSE]

\* createClient() threw: the call sits inside the helper's try block
ConstructFailure(kind) == CatchResult(kind, "construct", 0)

\* `return { data: { user }, error: null }` ({ error: null } for signOut)
SuccessResult(kind, rec, fires, h) ==
  [kind |-> kind, outcome |-> "resolved",
   data |-> IF kind = "signOut" THEN "absent" ELSE "user", user |-> rec,
   error |-> "none", failure |-> "none", fires |-> fires, h |-> h,
   calls |-> 0, repeat |-> FALSE]

RemoveAt(seq, i) == SubSeq(seq, 1, i - 1) \o SubSeq(seq, i + 1, Len(seq))

\* signInWithEmail / signInWithOAuth up to the await of the backend call;
\* `calls` counts the requests the helper has sent to the backend
signIn(kind, u) ==
  LET r == createClient
  IN /\ kind \in {"signIn", "oauth"}
     /\ Len(ops) < MaxPending
     /\ CallAllowed(r)
     /\ CallEffect(r)
     /\ stores' = r.stores
     /\ IF r.threw
          THEN lastOp' = ConstructFailure(kind) /\ ops' = ops
          ELSE /\ ops' = Append(ops, [kind |-> kind, stage |-> "auth",
                                      h |-> r.h, user |-> u, calls |-> 1])
               /\ lastOp' = lastOp
     /\ touched' = 0
     /\ UNCHANGED <<runtime, cookieAccess, docCookie>>
     /\ UNCHANGED <<chatVars, uiVars, edge, lastRead, dataVars>>

signInWithEmail(u) == signIn("signIn", u)

signInWithOAuth(u) == signIn("oauth", u)

\* signUpWithEmail up to the await of collection("users").create
signUpWithEmail(u) ==
  LET r == createClient
  IN /\ Len(ops) < MaxPending
     /\ CallAllowed(r)
     /\ CallEffect(r)
     /\ stores' = r.stores
     /\ IF r.threw
          THEN lastOp' = ConstructFailure("signUp") /\ ops' = ops
          ELSE /\ ops' = Append(ops, [kind |-> "signUp", stage |-> "create",
                                      h |-> r.h, user |-> u, calls |-> 1])
               /\ lastOp' = lastOp
     /\ touched' = 0
     /\ UNCHANGED <<runtime, cookieAccess, docCookie>>
     /\ UNCHANGED <<chatVars, uiVars, edge, lastRead, dataVars>>

\* mutant of usersCreateResolved: the helper returns the created record
\* without authenticating
usersCreateResolvedReturns(i) ==
  /\ i \in 1..Len(ops) /\ ops[i].stage = "create"
  /\ ops' = RemoveAt(ops, i)
  /\ lastOp' = [SuccessResult("signUp", RecordOf(ops[i].user), 0, ops[i].h)
                  EXCEPT !.calls = ops[i].calls]
  /\ touched' = 0
  /\ UNCHANGED <<runtime, cookieAccess, docCookie, pb, stores, listeners,
                 returned, serverCalls>>
  /\ UNCHANGED <<chatVars, uiVars, edge, lastRead, dataVars>>

\* create succeeded: signUpWithEmail goes on to authWithPassword
usersCreateResolved(i) ==
  /\ i \in 1..Len(ops) /\ ops[i].stage = "create"
  /\ ops' = [ops EXCEPT ![i].stage = "auth", ![i].calls = @ + 1]
  /\ touched' = 0
  /\ UNCHANGED <<runtime, cookieAccess, docCookie, pb, stores, listeners,
                 returned, serverCalls, lastOp>>
  /\ UNCHANGED <<chatVars, uiVars, edge, lastRead, dataVars>>

\* create failed (duplicate account, network): the catch block
usersCreateRejected(i) ==
  /\ i \in 1..Len(ops) /\ ops[i].stage = "create"
  /\ ops' = RemoveAt(ops, i)
  /\ lastOp' = [CatchResult("signUp", "backend", ops[i].h)
                  EXCEPT !.calls = ops[i].calls]
  /\ touched' = 0
  /\ UNCHANGED <<runtime, cookieAccess, docCookie, pb, stores, listeners,
                 returned, serverCalls>>
  /\ UNCHANGED <<chatVars, uiVars, edge, lastRead, dataVars>>

\* mutant of authResolved: authStore.save does not call the onChange
\* callbacks
authResolvedNoNotify(i) ==
  /\ i \in 1..Len(ops) /\ ops[i].stage = "auth"
  /\ LET op == ops[i]
     IN /\ stores' = [stores EXCEPT ![op.h] =
                        [token |-> TokenOf(op.user), record |-> RecordOf(op.user)]]
        /\ lastOp' = [SuccessResult(op.kind, RecordOf(op.user), 0, op.h)
                         EXCEPT !.calls = op.calls]
        /\ touched' = op.h
  /\ ops' = RemoveAt(ops, i)
  /\ UNCHANGED <<runtime, cookieAccess, docCookie, pb, listeners, returned,
                 serverCalls>>
  /\ UNCHANGED <<chatVars, uiVars, edge, lastRead, dataVars>>

\* authWithPassword / authWithOAuth2 succeeded: the SDK runs
\* authStore.save(token, record), which calls the onChange callbacks, and the
\* helper returns the user
authResolved(i) ==
  /\ i \in 1..Len(ops) /\ ops[i].stage = "auth"
  /\ LET op == ops[i]
         saved == [stores EXCEPT ![op.h] =
                     [token |-> TokenOf(op.user), record |-> RecordOf(op.user)]]
     IN /\ stores' = saved
        /\ docCookie' = CookieAfterChange(listeners, saved, op.h, pb)
        /\ lastOp' = [SuccessResult(op.kind, RecordOf(op.user),
                                    listeners[op.h], op.h)
                         EXCEPT !.calls = op.calls]
        /\ touched' = op.h
  /\ ops' = RemoveAt(ops, i)
  /\ UNCHANGED <<runtime, cookieAccess, pb, listeners, returned, serverCalls>>
  /\ UNCHANGED <<chatVars, uiVars, edge, lastRead, dataVars>>

\* mutant of authRejected: a rejected request clears the auth store
authRejectedClears(i) ==
  /\ i \in 1..Len(ops) /\ ops[i].stage = "auth"
  /\ ops' = RemoveAt(ops, i)
  /\ lastOp' = [CatchResult(ops[i].kind, "backend", ops[i].h)
                  EXCEPT !.calls = ops[i].calls]
  /\ LET cleared == [stores EXCEPT ![ops[i].h] = EmptyStore]
     IN /\ stores' = cleared
        /\ docCookie' = CookieAfterChange(listeners, cleared, ops[i].h, pb)
  /\ touched' = ops[i].h
  /\ UNCHANGED <<runtime, cookieAccess, pb, listeners, returned, serverCalls>>
  /\ UNCHANGED <<chatVars, uiVars, edge, lastRead, dataVars>>

\* the backend rejected the credentials, or the request failed: the SDK
\* call rejects without touching the auth store, the catch block returns
authRejected(i) ==
  /\ i \in 1..Len(ops) /\ ops[i].stage = "auth"
  /\ ops' = RemoveAt(ops, i)
  /\ lastOp' = [CatchResult(ops[i].kind, "backend", ops[i].h)
                  EXCEPT !.calls = ops[i].calls]
  /\ touched' = 0
  /\ UNCHANGED <<runtime, cookieAccess, docCookie, pb, stores, listeners,
                 returned, serverCalls>>
  /\ UNCHANGED <<chatVars, uiVars, edge, lastRead, dataVars>>

\* mutant of signOut: only the cookie is expired, authStore.clear() is
\* not called
signOutCookieOnly ==
  LET r == createClient
  IN /\ CallAllowed(r)
     /\ CallEffect(r)
     /\ stores' = r.stores
     /\ IF r.threw
          THEN /\ lastOp' = [ConstructFailure("signOut")
                               EXCEPT !.repeat = lastOp.kind = "signOut"]
               /\ docCookie' = docCookie
               /\ touched' = 0
          ELSE /\ touched' = 0
               /\ IF runtime = "browser" /\ cookieAccess = "denied"
                    THEN /\ docCookie' = docCookie
                         /\ lastOp' = [CatchResult("signOut", "cookie", r.h)
                                         EXCEPT !.repeat = lastOp.kind = "signOut"]
                    ELSE /\ docCookie' = IF runtime = "browser"
                                           THEN NoCookie ELSE docCookie
                         /\ lastOp' = [SuccessResult("signOut", NoRecord, 0, r.h)
                                         EXCEPT !.repeat = lastOp.kind = "signOut"]
     /\ UNCHANGED <<runtime, cookieAccess, ops>>
     /\ UNCHANGED <<chatVars, uiVars, edge, lastRead, dataVars>>

\* signOut(): clear the store (the callbacks run), then expire the cookie when
\* there is a document; no request is sent to the backend.  `repeat` tells
\* that the helper settled before this one was a signOut too.
signOut ==
  LET r == createClient
      cleared == IF r.threw THEN r.stores
                 ELSE [r.stores EXCEPT ![r.h] = EmptyStore]
      afterChange == IF r.threw THEN docCookie
                     ELSE CookieAfterChange(r.listeners, cleared, r.h, r.pb)
  IN /\ CallAllowed(r)
     /\ CallEffect(r)
     /\ stores' = cleared
     /\ IF r.threw
          THEN /\ lastOp' = [ConstructFailure("signOut")
                               EXCEPT !.repeat = lastOp.kind = "signOut"]
               /\ docCookie' = docCookie
               /\ touched' = 0
          ELSE /\ touched' = r.h
               /\ IF runtime = "browser" /\ cookieAccess = "denied"
                    THEN /\ docCookie' = afterChange
                         /\ lastOp' = [CatchResult("signOut", "cookie", r.h)
                                         EXCEPT !.repeat = lastOp.kind = "signOut"]
                    ELSE /\ docCookie' = IF runtime = "browser"
                                           THEN NoCookie ELSE afterChange
                         /\ lastOp' = [SuccessResult("signOut", NoRecord,
                                                     r.listeners[r.h], r.h)
                                         EXCEPT !.repeat = lastOp.kind = "signOut"]
     /\ UNCHANGED <<runtime, cookieAccess, ops>>
     /\ UNCHANGED <<chatVars, uiVars, edge, lastRead, dataVars>>

(***************************************************************************)
(* usePocketBase / useAuth (hooks.ts) of one component.                    *)
(***************************************************************************)
\* useAuth's default redirect target
redirectTo == "/login"

\* usePocketBase's return value isReady: mounted && pb !== null
isReady == mounted /\ hookPb # 0

\* useAuth's return value isAuthenticated: !!user
useAuthIsAuthenticated == user # NoRecord

\* the useState initialisers of usePocketBase and useAuth
HookInitial ==
  /\ mounted' = FALSE
  /\ hookPb' = 0
  /\ user' = NoRecord
  /\ loading' = TRUE
  /\ navigated' = "none"
  /\ authDue' = FALSE
  /\ checked' = FALSE

\* the pre-render pass on the server: the hooks run with their initial state
\* and no effect ever runs
prerender ==
  /\ runtime = "server" /\ phase = "none"
  /\ phase' = "rendered"
  /\ HookInitial
  /\ UNCHANGED <<chatVars, sessionVars, edge, lastRead, dataVars>>

\* mutant of render: the handle is obtained while rendering,
\* useState(getClient()), not in the mount effect
renderEager ==
  LET r == createClient
  IN /\ runtime = "browser" /\ phase = "none"
     /\ CallAllowed(r)
     /\ CallEffect(r)
     /\ stores' = r.stores
     /\ touched' = 0
     /\ phase' = IF r.threw THEN "crashed" ELSE "rendered"
     /\ mounted' = FALSE
     /\ hookPb' = r.h
     /\ user' = NoRecord
     /\ loading' = TRUE
     /\ navigated' = "none"
     /\ authDue' = FALSE
     /\ checked' = FALSE
     /\ UNCHANGED <<runtime, cookieAccess, docCookie, ops, lastOp>>
     /\ UNCHANGED <<chatVars, edge, lastRead, dataVars>>

\* mutant of render: loading starts as useState(false)
renderNotLoading ==
  /\ runtime = "browser" /\ phase = "none"
  /\ phase' = "rendered"
  /\ mounted' = FALSE
  /\ hookPb' = 0
  /\ user' = NoRecord
  /\ loading' = FALSE
  /\ navigated' = "none"
  /\ authDue' = FALSE
  /\ checked' = FALSE
  /\ UNCHANGED <<chatVars, sessionVars, edge, lastRead, dataVars>>

\* the first render in the browser: the hooks run with their initial state,
\* the effects are still to run
render ==
  /\ runtime = "browser" /\ phase = "none"
  /\ phase' = "rendered"
  /\ HookInitial
  /\ UNCHANGED <<chatVars, sessionVars, edge, lastRead, dataVars>>

\* the mount effect of usePocketBase: setMounted(true); setPb(getClient()).
\* useAuth's effect runs in the same commit with the isReady of the first
\* render (false) and returns at once; the state change schedules it again.
\* A getClient() that throws takes the component down.
usePocketBaseEffect ==
  LET r == createClient
  IN /\ runtime = "browser" /\ phase = "rendered"
     /\ CallAllowed(r)
     /\ CallEffect(r)
     /\ stores' = r.stores
     /\ touched' = 0
     /\ IF r.threw
          THEN /\ phase' = "crashed"
               /\ UNCHANGED <<mounted, hookPb, authDue>>
          ELSE /\ phase' = "mounted"
               /\ mounted' = TRUE
               /\ hookPb' = r.h
               /\ authDue' = TRUE
     /\ UNCHANGED <<user, loading, navigated, checked>>
     /\ UNCHANGED <<runtime, cookieAccess, docCookie, ops, lastOp>>
     /\ UNCHANGED <<chatVars, edge, lastRead, dataVars>>

\* mutant of useAuthEffect: the isValid test is missing, the store's record
\* is taken as the user whatever the token
useAuthEffectNoValidity ==
  /\ phase = "mounted" /\ authDue
  /\ authDue' = FALSE
  /\ IF ~isReady \/ hookPb = 0
       THEN UNCHANGED <<user, loading, navigated, checked>>
       ELSE /\ checked' = TRUE
            /\ user' = stores[hookPb].record
            /\ loading' = FALSE
            /\ navigated' = navigated
  /\ UNCHANGED <<phase, mounted, hookPb>>
  /\ UNCHANGED <<chatVars, sessionVars, edge, lastRead, dataVars>>

\* useAuth's effect, run after the render that saw isReady become true
useAuthEffect ==
  /\ phase = "mounted" /\ authDue
  /\ authDue' = FALSE
  /\ IF ~isReady \/ hookPb = 0
       THEN UNCHANGED <<user, loading, navigated, checked>>
       ELSE /\ checked' = TRUE
            /\ IF ~isValid(stores[hookPb].token)
                 THEN /\ navigated' = redirectTo
                      /\ UNCHANGED <<user, loading>>
                 ELSE /\ user' = stores[hookPb].record
                      /\ loading' = FALSE
                      /\ navigated' = navigated
  /\ UNCHANGED <<phase, mounted, hookPb>>
  /\ UNCHANGED <<chatVars, sessionVars, edge, lastRead, dataVars>>

\* useAuth.logout: pb.authStore.clear() on the handle the hook holds (the
\* callbacks run), then navigate({ to: "/" }); nothing while pb is null
logout ==
  /\ phase = "mounted" /\ hookPb # 0
  /\ LET cleared == [stores EXCEPT ![hookPb] = EmptyStore]
     IN /\ stores' = cleared
        /\ docCookie' = CookieAfterChange(listeners, cleared, hookPb, pb)
  /\ touched' = hookPb
  /\ navigated' = "/"
  /\ UNCHANGED <<phase, mounted, hookPb, user, loading, authDue, checked>>
  /\ UNCHANGED <<runtime, cookieAccess, pb, listeners, returned, serverCalls,
                 ops, lastOp>>
  /\ UNCHANGED <<chatVars, edge, lastRead, dataVars>>

\* the route the component belongs to is left after a navigate(): the
\* component is torn down and its hook state is gone
unmount ==
  /\ phase = "mounted" /\ navigated # "none"
  /\ phase' = "none"
  /\ HookInitial
  /\ UNCHANGED <<chatVars, sessionVars, edge, lastRead, dataVars>>

\* the holder of a handle clears its store from outside the helpers
ExternalInvalidate(h) ==
  /\ h \in 1..Len(stores)
  /\ stores[h] # EmptyStore
  /\ LET cleared == [stores EXCEPT ![h] = EmptyStore]
     IN /\ stores' = cleared
        /\ docCookie' = CookieAfterChange(listeners, cleared, h, pb)
  /\ touched' = h
  /\ UNCHANGED <<runtime, cookieAccess, pb, listeners, returned, serverCalls,
                 ops, lastOp>>
  /\ UNCHANGED <<chatVars, uiVars, edge, lastRead, dataVars>>

(***************************************************************************)
(* updateSession (middleware.ts).                                          *)
(***************************************************************************)
\* a pb_auth cookie whose value is the JSON text null
JsonNullCookie == [kind |-> "jsonNull", token |-> "", record |-> NoRecord]

\* the pb_auth cookie of an incoming request: absent, not JSON, JSON null, a
\* valid token, an expired token, a valid token with a cut-down record
RequestCookies ==
  {NoCookie, MalformedCookie, JsonNullCookie, AuthCookie("t1", RecordOf(1)),
   AuthCookie("tx", RecordOf(1)), AuthCookie("t2", CookieRecord(RecordOf(2)))}

\* authStore.loadFromCookie() throws only when the value parses to null (it
\* then reads data.token of null); text that is not JSON and tokens that are
\* invalid or expired are loaded without an exception
loadFromCookieThrows(cv) == cv.kind = "jsonNull"

\* updateSession(request): the pass-through response; the cookie is deleted
\* in the catch block only
updateSession(cv) ==
  /\ runtime = "server"
  /\ edge' = [seen |-> TRUE, cookie |-> cv,
              deleted |-> cv # NoCookie /\ loadFromCookieThrows(cv),
              outcome |-> "next"]
  /\ UNCHANGED <<chatVars, sessionVars, uiVars, lastRead, dataVars>>

(***************************************************************************)
(* usePocketBaseQuery and usePocketBaseMutation (hooks.ts) in one          *)
(* component, the consumer.                                                *)
(***************************************************************************)
NoError == 0
\* new Error("PocketBase not ready")
NotReadyError == -1

\* a queryFn call: who started it, the `cancelled` flag of the effect run
\* that started it (execute has none), and how its promise stands
Fetch(origin) == [origin |-> origin, cancelled |-> FALSE, state |-> "pending"]

\* no mutate call has settled yet
NoMutation == [id |-> 0, value |-> "none", called |-> FALSE]

InitConsumer ==
  /\ consumer = "none"
  /\ consumerPb = 0
  /\ qData = 0
  /\ qLoading = TRUE
  /\ qError = NoError
  /\ fetches = <<>>
  /\ lateUpdates = {}
  /\ mLoading = FALSE
  /\ mError = NoError
  /\ mutations = <<>>
  /\ mLast = NoMutation

\* usePocketBase's isReady as the consumer's hooks see it
consumerReady == consumer = "mounted" /\ consumerPb # 0

\* the first render in the browser: useState initial values, no effect yet
consumerRender ==
  /\ runtime = "browser" /\ consumer = "none"
  /\ consumer' = "rendered"
  /\ UNCHANGED <<consumerPb, queryVars, mutationVars, creditVars>>
  /\ UNCHANGED <<chatVars, sessionVars, uiVars, edge, lastRead>>

\* the index of the fetch the latest effect run started, 0 when none
LatestEffectFetch(fs) ==
  IF \E k \in 1..Len(fs) : fs[k].origin = "effect"
    THEN CHOOSE k \in 1..Len(fs) :
           /\ fs[k].origin = "effect"
           /\ \A j \in 1..Len(fs) : fs[j].origin = "effect" => j <= k
    ELSE 0

\* the effect's cleanup, `return () => { cancelled = true }`: it sets the flag
\* of the effect run it belongs to
Cleanup(fs) ==
  IF LatestEffectFetch(fs) = 0 THEN fs
  ELSE [fs EXCEPT ![LatestEffectFetch(fs)].cancelled = TRUE]

\* the body of the query effect with isReady true: setLoading(true),
\* setError(null), queryFn(pb) is called
EffectRun(fs) ==
  /\ fetches' = Append(fs, Fetch("effect"))
  /\ qLoading' = TRUE
  /\ qError' = NoError
  /\ UNCHANGED <<qData, lateUpdates>>

\* the mount effects: usePocketBase sets isMounted and pb (getClient()); the
\* query effect runs in the same commit with the isReady of the first render
\* and returns at once; the re-render with isReady true runs it again and it
\* fetches.  A getClient() that throws takes the component down.
consumerMountEffect ==
  LET r == createClient
  IN /\ runtime = "browser" /\ consumer = "rendered"
     /\ CallAllowed(r)
     /\ CallEffect(r)
     /\ stores' = r.stores
     /\ touched' = 0
     /\ IF r.threw
          THEN /\ consumer' = "crashed"
               /\ UNCHANGED <<consumerPb, queryVars>>
          ELSE /\ consumer' = "mounted"
               /\ consumerPb' = r.h
               /\ EffectRun(fetches)
     /\ UNCHANGED <<mutationVars, creditVars>>
     /\ UNCHANGED <<runtime, cookieAccess, docCookie, ops, lastOp>>
     /\ UNCHANGED <<chatVars, uiVars, edge, lastRead>>

\* a render with a changed entry of `deps`: React runs the cleanup of the
\* previous effect run, then the effect again
depsChange ==
  /\ consumerReady
  /\ Len(fetches) < MaxFetches
  /\ EffectRun(Cleanup(fetches))
  /\ UNCHANGED <<consumerVars, mutationVars, creditVars>>
  /\ UNCHANGED <<chatVars, sessionVars, uiVars, edge, lastRead>>

\* refetch(), that is execute: nothing unless isReady and pb; else
\* setLoading(true), setError(null), queryFn(pb) is called
refetch ==
  /\ consumerReady
  /\ Len(fetches) < MaxFetches
  /\ fetches' = Append(fetches, Fetch("refetch"))
  /\ qLoading' = TRUE
  /\ qError' = NoError
  /\ UNCHANGED <<qData, lateUpdates>>
  /\ UNCHANGED <<consumerVars, mutationVars, creditVars>>
  /\ UNCHANGED <<chatVars, sessionVars, uiVars, edge, lastRead>>

\* mutant of Applies: the effect's continuation does not test `cancelled`
AppliesAlways(k) == TRUE

\* does the continuation of fetch k call the state setters?  The effect's
\* continuation tests `!cancelled`, execute's tests nothing.
Applies(k) == fetches[k].origin = "refetch" \/ ~fetches[k].cancelled

\* the setters called by a settling fetch reach the hook state of a live
\* component; on a component that is gone they change nothing that is
\* rendered, the call is recorded in lateUpdates
Settle(k, outcome) ==
  /\ k \in 1..Len(fetches) /\ fetches[k].state = "pending"
  /\ fetches' = [fetches EXCEPT ![k].state = outcome]
  /\ IF ~Applies(k)
       THEN UNCHANGED <<qData, qLoading, qError, lateUpdates>>
     ELSE IF consumer # "mounted"
       THEN /\ lateUpdates' = lateUpdates \cup {k}
            /\ UNCHANGED <<qData, qLoading, qError>>
     ELSE /\ qData' = IF outcome = "resolved" THEN k ELSE qData
          /\ qError' = IF outcome = "rejected" THEN k ELSE qError
          /\ qLoading' = FALSE
          /\ UNCHANGED lateUpdates
  /\ UNCHANGED <<consumerVars, mutationVars, creditVars>>
  /\ UNCHANGED <<chatVars, sessionVars, uiVars, edge, lastRead>>

\* `const result = await queryFn(pb)` resumes: setData(result), then the
\* finally block's setLoading(false)
fetchResolved(k) == Settle(k, "resolved")

\* queryFn rejected: the catch block's setError, then setLoading(false)
fetchRejected(k) == Settle(k, "rejected")

\* the component is removed: React runs the cleanup of the last effect run
consumerUnmount ==
  /\ consumer = "mounted"
  /\ consumer' = "unmounted"
  /\ fetches' = Cleanup(fetches)
  /\ UNCHANGED <<consumerPb, qData, qLoading, qError, lateUpdates>>
  /\ UNCHANGED <<mutationVars, creditVars>>
  /\ UNCHANGED <<chatVars, sessionVars, uiVars, edge, lastRead>>

\* mutate(data): before the handle is ready setError(new Error("PocketBase
\* not ready")) and null; else setLoading(true), setError(null) and
\* mutationFn(pb, data) is called
mutate ==
  /\ consumer \in {"rendered", "mounted"}
  /\ IF ~consumerReady
       THEN /\ mError' = NotReadyError
            /\ mLast' = [id |-> 0, value |-> "null", called |-> FALSE]
            /\ UNCHANGED <<mLoading, mutations>>
       ELSE /\ Len(mutations) < MaxMutations
            /\ mutations' = Append(mutations, "pending")
            /\ mLoading' = TRUE
            /\ mError' = NoError
            /\ UNCHANGED mLast
  /\ UNCHANGED <<consumerVars, queryVars, creditVars>>
  /\ UNCHANGED <<chatVars, sessionVars, uiVars, edge, lastRead>>

\* mutationFn resolved: mutate returns the result; finally setLoading(false).
\* The setters change nothing once the component is gone.
mutationResolved(j) ==
  /\ j \in 1..Len(mutations) /\ mutations[j] = "pending"
  /\ mutations' = [mutations EXCEPT ![j] = "resolved"]
  /\ mLast' = [id |-> j, value |-> "result", called |-> TRUE]
  /\ mLoading' = IF consumer = "mounted" THEN FALSE ELSE mLoading
  /\ UNCHANGED mError
  /\ UNCHANGED <<consumerVars, queryVars, creditVars>>
  /\ UNCHANGED <<chatVars, sessionVars, uiVars, edge, lastRead>>

\* mutant of mutationRejected: the failure is not stored in `error`
mutationRejectedSilent(j) ==
  /\ j \in 1..Len(mutations) /\ mutations[j] = "pending"
  /\ mutations' = [mutations EXCEPT ![j] = "rejected"]
  /\ mLast' = [id |-> j, value |-> "null", called |-> TRUE]
  /\ mLoading' = IF consumer = "mounted" THEN FALSE ELSE mLoading
  /\ UNCHANGED mError
  /\ UNCHANGED <<consumerVars, queryVars, creditVars>>
  /\ UNCHANGED <<chatVars, sessionVars, uiVars, edge, lastRead>>

\* mutationFn rejected: the catch block's setError, mutate returns null;
\* finally setLoading(false)
mutationRejected(j) ==
  /\ j \in 1..Len(mutations) /\ mutations[j] = "pending"
  /\ mutations' = [mutations EXCEPT ![j] = "rejected"]
  /\ mLast' = [id |-> j, value |-> "null", called |-> TRUE]
  /\ mLoading' = IF consumer = "mounted" THEN FALSE ELSE mLoading
  /\ mError' = IF consumer = "mounted" THEN j ELSE mError
  /\ UNCHANGED <<consumerVars, queryVars, creditVars>>
  /\ UNCHANGED <<chatVars, sessionVars, uiVars, edge, lastRead>>

(***************************************************************************)
(* deduct_credits and add_credits (SQL functions), called for one user.    *)
(* Each call is one transaction at PostgreSQL's default isolation level,   *)
(* READ COMMITTED: every statement of the function reads the rows          *)
(* committed when it starts, an UPDATE applies to the latest committed     *)
(* row, and what the call wrote becomes visible when it commits.  A call   *)
(* writes only in its last statements, so they and the commit are one      *)
(* step; an exception rolls the call back.                                 *)
(*                                                                         *)
(* The tables are made by CREATE TABLE IF NOT EXISTS.  In a database built *)
(* from this file alone ("file") user_id has no unique constraint and      *)
(* credit_transactions.id is a UUID without a sequence, so add_credits     *)
(* raises at its ON CONFLICT (user_id) and deduct_credits raises at        *)
(* currval('credit_transactions_id_seq'); where the tables existed before  *)
(* with that constraint and a serial id ("complete") every statement       *)
(* executes.                                                               *)
(***************************************************************************)
Schemas == {"file", "complete"}

\* balance NUMERIC DEFAULT 100 NOT NULL
DefaultBalance == 100

\* values of p_amount: NUMERIC, no sign is checked
Amounts == {-50, 60, 100}

\* values of p_type that matter to add_credits
Types == {"purchase", "bonus"}

\* the user has no row in user_credits
NoRow == [exists |-> FALSE, balance |-> 0, lifetime_used |-> 0,
          lifetime_purchased |-> 0]

\* the row INSERT INTO user_credits (user_id) VALUES (..) creates
DefaultRow == [exists |-> TRUE, balance |-> DefaultBalance, lifetime_used |-> 0,
               lifetime_purchased |-> 0]

InitCredits ==
  /\ schema \in Schemas
  /\ user_credits \in {NoRow, DefaultRow}
  /\ credit_transactions = <<>>
  /\ sqlCalls = <<>>

\* a client calls one of the two functions
sqlCall(fn, amount, type) ==
  /\ Len(sqlCalls) < MaxSqlCalls
  /\ Len(credit_transactions) + Len(sqlCalls) < MaxTransactions
  /\ sqlCalls' = Append(sqlCalls,
                        [fn |-> fn, p_amount |-> amount, p_type |-> type,
                         pc |-> IF fn = "deduct_credits" THEN "select"
                                ELSE "insert",
                         inserted |-> FALSE, current_balance |-> 0])
  /\ UNCHANGED <<schema, user_credits, credit_transactions>>
  /\ UNCHANGED <<consumerVars, queryVars, mutationVars>>
  /\ UNCHANGED <<chatVars, sessionVars, uiVars, edge, lastRead>>

\* the call leaves: RETURN, or RAISE EXCEPTION with nothing written
Leave(i) == sqlCalls' = RemoveAt(sqlCalls, i)

\* deduct_credits: SELECT balance INTO current_balance and the two tests
deductSelect(i) ==
  /\ i \in 1..Len(sqlCalls)
  /\ sqlCalls[i].fn = "deduct_credits" /\ sqlCalls[i].pc = "select"
  /\ IF ~user_credits.exists \/ user_credits.balance < sqlCalls[i].p_amount
       THEN Leave(i)
       ELSE sqlCalls' = [sqlCalls EXCEPT
                           ![i].current_balance = user_credits.balance,
                           ![i].pc = "update"]
  /\ UNCHANGED <<schema, user_credits, credit_transactions>>
  /\ UNCHANGED <<consumerVars, queryVars, mutationVars>>
  /\ UNCHANGED <<chatVars, sessionVars, uiVars, edge, lastRead>>

\* deduct_credits: new_balance := current_balance - p_amount, the UPDATE,
\* the INSERT INTO credit_transactions, RETURN; the writes are rolled back
\* where currval() raises
deductUpdate(i) ==
  /\ i \in 1..Len(sqlCalls)
  /\ sqlCalls[i].fn = "deduct_credits" /\ sqlCalls[i].pc = "update"
  /\ LET new_balance == sqlCalls[i].current_balance - sqlCalls[i].p_amount
     IN IF schema = "file"
          THEN UNCHANGED <<user_credits, credit_transactions>>
          ELSE /\ user_credits' =
                    [user_credits EXCEPT
                       !.balance = new_balance,
                       !.lifetime_used = @ + sqlCalls[i].p_amount]
               /\ credit_transactions' =
                    Append(credit_transactions,
                           [amount |-> 0 - sqlCalls[i].p_amount,
                            type |-> "usage", balance_after |-> new_balance])
  /\ Leave(i)
  /\ UNCHANGED schema
  /\ UNCHANGED <<consumerVars, queryVars, mutationVars>>
  /\ UNCHANGED <<chatVars, sessionVars, uiVars, edge, lastRead>>

\* add_credits: INSERT INTO user_credits .. ON CONFLICT DO NOTHING.  The
\* statement waits while another call's uncommitted row is in its way; it
\* raises where user_id has no unique constraint.
addInsert(i) ==
  /\ i \in 1..Len(sqlCalls)
  /\ sqlCalls[i].fn = "add_credits" /\ sqlCalls[i].pc = "insert"
  /\ \A j \in 1..Len(sqlCalls) : ~sqlCalls[j].inserted
  /\ IF schema = "file"
       THEN Leave(i)
       ELSE sqlCalls' = [sqlCalls EXCEPT ![i].inserted = ~user_credits.exists,
                                         ![i].pc = "select"]
  /\ UNCHANGED <<schema, user_credits, credit_transactions>>
  /\ UNCHANGED <<consumerVars, queryVars, mutationVars>>
  /\ UNCHANGED <<chatVars, sessionVars, uiVars, edge, lastRead>>

\* the row of user_credits as call i sees it: its own uncommitted row, or the
\* committed one
RowSeenBy(i) == IF sqlCalls[i].inserted THEN DefaultRow ELSE user_credits

\* add_credits: SELECT balance INTO current_balance
addSelect(i) ==
  /\ i \in 1..Len(sqlCalls)
  /\ sqlCalls[i].fn = "add_credits" /\ sqlCalls[i].pc = "select"
  /\ sqlCalls' = [sqlCalls EXCEPT
                    ![i].current_balance = RowSeenBy(i).balance,
                    ![i].pc = "update"]
  /\ UNCHANGED <<schema, user_credits, credit_transactions>>
  /\ UNCHANGED <<consumerVars, queryVars, mutationVars>>
  /\ UNCHANGED <<chatVars, sessionVars, uiVars, edge, lastRead>>

\* add_credits: new_balance := current_balance + p_amount, the UPDATE, the
\* INSERT INTO credit_transactions, RETURN
addUpdate(i) ==
  /\ i \in 1..Len(sqlCalls)
  /\ sqlCalls[i].fn = "add_credits" /\ sqlCalls[i].pc = "update"
  /\ LET new_balance == sqlCalls[i].current_balance + sqlCalls[i].p_amount
     IN IF schema = "file"
          THEN UNCHANGED <<user_credits, credit_transactions>>
          ELSE /\ user_credits' =
                    [RowSeenBy(i) EXCEPT
                       !.balance = new_balance,
                       !.lifetime_purchased =
                          @ + (IF sqlCalls[i].p_type = "purchase"
                                 THEN sqlCalls[i].p_amount ELSE 0)]
               /\ credit_transactions' =
                    Append(credit_transactions,
                           [amount |-> sqlCalls[i].p_amount,
                            type |-> sqlCalls[i].p_type,
                            balance_after |-> new_balance])
  /\ Leave(i)
  /\ UNCHANGED schema
  /\ UNCHANGED <<consumerVars, queryVars, mutationVars>>
  /\ UNCHANGED <<chatVars, sessionVars, uiVars, edge, lastRead>>

\* the specifications of the application code never call the database
\* functions
Init ==
  /\ InitChat /\ InitSession /\ InitConsumer /\ InitCredits
  /\ schema = "file" /\ user_credits = NoRow

\* a database server with one user's credits
InitDb ==
  /\ InitChat /\ InitSession /\ InitConsumer /\ InitCredits
  /\ runtime = "server"

\* the chat adapter is checked in one (server) runtime
InitChatOnly == Init /\ runtime = "server"


NextChat ==
  \/ \E b \in Bodies : POST(b)
  \/ PostCreateResolved
  \/ PostCreateRejected
  \/ PostReadFragment
  \/ PostStreamEnd
  \/ PostStreamError
  \/ \E d \in FnData : chat(d)
  \/ \E d \in FnData : chatStream(d)
  \/ \E resp \in Fragments : ChatResolved(resp)
  \/ FnCreateResolved
  \/ FnCreateRejected
  \/ FnReadFragment
  \/ FnStreamEnd
  \/ FnStreamError
  \/ \E f \in Fragments : RemoteEmit(f)
  \/ RemoteEnd
  \/ RemoteFail
  \/ NextRequest

SpecChat == InitChatOnly /\ [][NextChat]_vars

NextSession ==
  \/ getClient
  \/ \E header \in CookieHeaders : createServerClient(header)
  \/ \E u \in Users : signInWithEmail(u)
  \/ \E u \in Users : signInWithOAuth(u)
  \/ \E u \in Users : signUpWithEmail(u)
  \/ \E i \in 1..MaxPending : usersCreateResolved(i)
  \/ \E i \in 1..MaxPending : usersCreateRejected(i)
  \/ \E i \in 1..MaxPending : authResolved(i)
  \/ \E i \in 1..MaxPending : authRejected(i)
  \/ signOut
  \/ render
  \/ usePocketBaseEffect
  \/ logout
  \/ \E h \in 1..MaxHandles : ExternalInvalidate(h)

SpecSession == Init /\ [][NextSession]_vars

\* a server handling requests: the middleware, then the code that builds its
\* client from the request's cookie header
InitServer == Init /\ runtime = "server"

NextEdge ==
  \/ \E cv \in RequestCookies : updateSession(cv)
  \/ \E header \in CookieHeaders : createServerClient(header)

SpecEdge == InitServer /\ [][NextEdge]_vars

\* one component using useAuth, with the sign-in and sign-out helpers
NextUI ==
  \/ prerender
  \/ render
  \/ usePocketBaseEffect
  \/ useAuthEffect
  \/ logout
  \/ unmount
  \/ \E u \in Users : signInWithEmail(u)
  \/ \E i \in 1..MaxPending : authResolved(i)
  \/ \E i \in 1..MaxPending : authRejected(i)
  \/ signOut
  \/ isAuthenticated
  \/ getCurrentUser

SpecUI == Init /\ [][NextUI]_vars

\* React runs a scheduled effect once the render is committed
SpecUIFair == SpecUI /\ WF_vars(useAuthEffect)

\* one component using usePocketBaseQuery
NextQuery ==
  \/ consumerRender
  \/ consumerMountEffect
  \/ depsChange
  \/ refetch
  \/ \E k \in 1..MaxFetches : fetchResolved(k)
  \/ \E k \in 1..MaxFetches : fetchRejected(k)
  \/ consumerUnmount

SpecQuery == Init /\ [][NextQuery]_vars

\* one component using usePocketBaseMutation
NextMutation ==
  \/ consumerRender
  \/ consumerMountEffect
  \/ mutate
  \/ \E j \in 1..MaxMutations : mutationResolved(j)
  \/ \E j \in 1..MaxMutations : mutationRejected(j)
  \/ consumerUnmount

SpecMutation == Init /\ [][NextMutation]_vars

\* clients of the database calling the two credits functions for one user
NextCredits ==
  \/ \E amount \in Amounts : sqlCall("deduct_credits", amount, "usage")
  \/ \E amount \in Amounts, type \in Types : sqlCall("add_credits", amount, type)
  \/ \E i \in 1..MaxSqlCalls : deductSelect(i)
  \/ \E i \in 1..MaxSqlCalls : deductUpdate(i)
  \/ \E i \in 1..MaxSqlCalls : addInsert(i)
  \/ \E i \in 1..MaxSqlCalls : addSelect(i)
  \/ \E i \in 1..MaxSqlCalls : addUpdate(i)

SpecCredits == InitDb /\ [][NextCredits]_vars

(***************************************************************************)
(* Claims about the session accessor.                                      *)
(***************************************************************************)
\* C1: in a browser context every createClient()/getClient() call, direct or
\* made by an auth helper, returns the same handle, and at most one
\* client-side handle is ever constructed.
C1_BrowserSingleton ==
  runtime = "browser" =>
    /\ Len(stores) <= 1
    /\ Cardinality(returned) <= 1
    /\ returned # {} => returned = {pb}
    /\ \A i \in 1..Len(ops) : ops[i].h = pb
    /\ lastOp.h \in {0, pb}

\* C1 witness: several helpers have called createClient on a built singleton
C1_Witness ==
  /\ runtime = "browser" /\ returned = {1} /\ pb = 1
  /\ Len(ops) = 2 /\ lastOp.kind = "signOut" /\ lastOp.h = 1

\* C2: in a server context every createClient() / createServerClient() call
\* constructs a new handle and the module-level singleton stays null; a write
\* to one handle's auth store leaves every other handle's token and record
\* unchanged.
C2_ServerIsolation ==
  /\ [](runtime = "server" =>
          /\ pb = 0
          /\ Len(stores) = serverCalls
          /\ Cardinality(returned) = serverCalls)
  /\ [][runtime = "server" =>
          \A b \in 1..Len(stores) :
            stores'[b] # stores[b] => b = touched']_vars

\* C2 witness: two handles built from different cookie headers; the first one's
\* store was cleared, the second still holds its token and record
C2_Witness ==
  /\ runtime = "server" /\ serverCalls = 2 /\ lastOp.kind = "none"
  /\ touched = 1 /\ stores[1] = EmptyStore
  /\ stores[2] = [token |-> "t2", record |-> CookieRecord(RecordOf(2))]

\* a successful signInWithEmail / signInWithOAuth settles in this step, in a
\* browser whose cookie store is accessible
SignInSettles ==
  /\ runtime = "browser" /\ cookieAccess = "ok"
  /\ \E i \in 1..Len(ops) : ops[i].kind \in {"signIn", "oauth"} /\ authResolved(i)

C10_HelpersNeverThrow ==
  lastOp.kind # "none" =>
    /\ lastOp.outcome = "resolved"
    /\ lastOp.failure # "none" =>
         /\ lastOp.error = lastOp.failure
         /\ lastOp.kind # "signOut" => lastOp.data = "null"
    /\ lastOp.failure = "none" =>
         /\ lastOp.error = "none"
         /\ lastOp.kind # "signOut" => lastOp.data = "user"

\* C10 witness: createClient() threw inside signInWithEmail
C10_Witness ==
  /\ lastOp.kind = "signIn" /\ lastOp.failure = "construct"
  /\ lastOp.outcome = "resolved" /\ lastOp.error = "construct"


\* start() is an async function on the event loop: a turn of its loop that can
\* run does run
SpecChatFair ==
  SpecChat /\ WF_vars(PostReadFragment) /\ WF_vars(PostStreamEnd)

(***************************************************************************)
(* Claims about the chat stream adapter.                                   *)
(***************************************************************************)
RECURSIVE ForwardedChunks(_)
\* the encoded non-empty text deltas of a fragment sequence, in order
ForwardedChunks(frags) ==
  IF frags = <<>> THEN <<>>
  ELSE LET c == DeltaContent(Head(frags))
       IN (IF Truthy(c) THEN <<Encode(c.text)>> ELSE <<>>)
            \o ForwardedChunks(Tail(frags))

\* C5: every request whose `messages` is missing or not a sequence is rejected
\* with a validation error (400 on POST, a throw of the validator on the server
\* functions) and the remote endpoint is called zero times.
C5_MalformedRejectedNoRemoteCall ==
  (pc = "done" /\ Malformed(body)) =>
    /\ remoteCalls = 0
    /\ remoteState = "none"
    /\ mode = "post" => response.status = 400
    /\ mode \in {"chat", "chatStream"} =>
         (response.kind = "throw" /\ response.stage = "validator")

\* C6: every malformed POST /api/chat request gets status 400 with the body
\* {"error": "Messages array is required"}; 500 is never the answer to a
\* malformed request.
C6_Malformed400 ==
  (mode = "post" /\ pc = "done" /\ Malformed(body)) =>
    /\ response.kind = "http"
    /\ response.status # 500
    /\ response.error = "Messages array is required"

\* C7: in a streaming POST the chunks written to the output channel are the
\* non-empty text deltas of the fragments read so far, one chunk per fragment,
\* in arrival order (nothing reordered, duplicated, dropped or merged).
C7_FragmentOrder ==
  (mode = "post" /\ pc \in {"streaming", "done"} /\ channel # "none") =>
    written = ForwardedChunks(SubSeq(remote, 1, consumed))

\* C7 witness: "He" then "llo" were forwarded around a fragment without text
C7_Witness ==
  /\ mode = "post" /\ consumed = 3
  /\ written = <<Encode(<<"H", "e">>), Encode(<<"l", "l", "o">>)>>

\* C8: when the remote stream of a valid POST ends, the output channel is
\* eventually closed, exactly once, after every fragment has been forwarded,
\* and nothing is written after the close.
C8_ClosedOnceAtEnd ==
  /\ [](mode = "post" => closeCount <= 1)
  /\ [](channel = "closed" =>
          /\ closeCount = 1
          /\ remoteState = "ended"
          /\ written = ForwardedChunks(remote))
  /\ [][channel = "closed" => (written' = written \/ channel' = "none")]_vars
  /\ ((mode = "post" /\ pc = "streaming" /\ remoteState = "ended")
        ~> (channel = "closed"))

\* C8 witness: a stream of several fragments ended and the channel is closed
C8_Witness ==
  /\ mode = "post" /\ channel = "closed" /\ closeCount = 1
  /\ Len(remote) = 3 /\ Len(written) >= 2

\* C9: every failure of the remote endpoint during POST, at the request or
\* while fragments are read, is caught, logged and answered with status 500
\* and the generic body; nothing propagates uncaught.
C9_RemoteFailure500 ==
  (mode = "post" /\ pc = "done" /\ remoteState \in {"failed", "rejected"}) =>
    /\ response.status = 500
    /\ response.error = "Failed to generate response"
    /\ logged
    /\ channel # "errored"

(***************************************************************************)
(* Claims about the auth helpers.                                          *)
(***************************************************************************)
\* what isAuthenticated() would return if it were called now (FALSE when it
\* would throw)
AuthenticatedNow ==
  LET r == createClient
  IN ~r.threw /\ isValid(r.stores[r.h].token)

\* the backend rejects a signInWithEmail call in this step
SignInRejected ==
  \E i \in 1..Len(ops) : ops[i].kind = "signIn" /\ authRejected(i)

\* C11: when the backend rejects the credentials of signInWithEmail the
\* result is {data: null, error: <Error>} and the rejection leaves every
\* handle's token and record and the pb_auth cookie as they were; an
\* isAuthenticated() that was false stays false.
C11_RejectedSignInChangesNothing ==
  [][SignInRejected =>
       /\ lastOp'.kind = "signIn"
       /\ lastOp'.outcome = "resolved"
       /\ lastOp'.data = "null"
       /\ lastOp'.error = "backend"
       /\ stores' = stores
       /\ docCookie' = docCookie
       /\ ~AuthenticatedNow => ~AuthenticatedNow']_vars

\* C11 witness: a sign-in on the signed-out browser singleton was rejected
C11_Witness ==
  /\ runtime = "browser" /\ pb # 0
  /\ lastOp.kind = "signIn" /\ lastOp.error = "backend" /\ lastOp.data = "null"
  /\ stores[pb] = EmptyStore /\ docCookie = NoCookie
  /\ ~AuthenticatedNow

\* the token of the handle the auth helpers work on: the singleton in a
\* browser, the handle of the last helper call on a server
HelperToken ==
  IF runtime = "browser"
    THEN (IF pb = 0 THEN "" ELSE stores[pb].token)
    ELSE (IF lastOp.h = 0 THEN "" ELSE stores[lastOp.h].token)

C13_RoundTrips ==
  lastOp.kind # "none" =>
    /\ lastOp.kind \in {"signIn", "oauth", "signOut"} => lastOp.calls = 1
    /\ (lastOp.kind = "signUp" /\ lastOp.failure = "none") => lastOp.calls = 2
    /\ lastOp.calls <= 2

\* isAuthenticated() or getCurrentUser() is called in this step
ReadStep == isAuthenticated \/ getCurrentUser

\* what a read leaves alone and what it returns when it returns
ReadIsPure ==
  /\ ops' = ops
  /\ lastOp' = lastOp
  /\ docCookie' = docCookie
  /\ \A h \in 1..Len(stores) : stores'[h] = stores[h]
  /\ ~lastRead'.threw =>
       /\ lastRead'.h \in 1..Len(stores')
       /\ runtime = "browser" => lastRead'.h = pb'
       /\ lastRead'.fn = "isAuthenticated" =>
            lastRead'.valid = isValid(stores'[lastRead'.h].token)
       /\ lastRead'.fn = "getCurrentUser" =>
            lastRead'.record = stores'[lastRead'.h].record

C15_ReadyOnlyAfterMount ==
  /\ [](isReady =>
          /\ mounted /\ hookPb # 0
          /\ runtime = "browser" /\ phase = "mounted" /\ hookPb = pb)
  /\ [](phase \in {"none", "rendered"} => (~isReady /\ hookPb = 0))
  /\ [][(prerender \/ render) =>
          /\ pb' = pb /\ stores' = stores /\ listeners' = listeners
          /\ returned' = returned /\ serverCalls' = serverCalls]_vars
  /\ [][hookPb' # hookPb => (usePocketBaseEffect \/ unmount)]_vars

\* C15 witness: the mount effect has run in a browser holding a session
\* cookie and the hook is ready with the singleton
C15_Witness ==
  /\ runtime = "browser" /\ phase = "mounted" /\ isReady
  /\ hookPb = pb /\ stores[hookPb].token = "t1"

\* C16: until isReady is true useAuth reports loading true and user null, has
\* triggered no navigation and has not read the token's validity.
C16_UnknownBeforeReady ==
  ~isReady =>
    /\ loading
    /\ user = NoRecord
    /\ ~useAuthIsAuthenticated
    /\ navigated = "none"
    /\ ~checked

\* C16 witness: the first render of a browser that holds a valid session
\* cookie: the state is reported as unknown
C16_Witness ==
  /\ runtime = "browser" /\ phase = "rendered" /\ ~isReady
  /\ docCookie = AuthCookie("t1", RecordOf(1))
  /\ loading /\ user = NoRecord

\* C17: once the component is mounted useAuth's effect runs (unless the
\* component is torn down first); with a missing or invalid token it
\* navigates to the redirect target and user stays null, with a valid token
\* user becomes the store's record and loading false.
C17_MountDecides ==
  /\ [][useAuthEffect =>
          IF isValid(stores[hookPb].token)
            THEN /\ user' = stores[hookPb].record
                 /\ useAuthIsAuthenticated'
                 /\ ~loading'
                 /\ navigated' = navigated
            ELSE /\ navigated' = redirectTo
                 /\ user' = NoRecord
                 /\ ~useAuthIsAuthenticated']_vars
  /\ ((phase = "mounted" /\ authDue) ~> (checked \/ phase # "mounted"))

\* C17 witness: the cookie held an expired token; the effect has navigated
\* to the redirect target and reports no user
C17_Witness ==
  /\ phase = "mounted" /\ checked /\ ~authDue
  /\ stores[hookPb].token = "tx"
  /\ navigated = redirectTo /\ user = NoRecord /\ loading

\* C18: in a mounted component whose effect has run, once the handle's token
\* has been cleared by logout() or signOut(), useAuth reports
\* unauthenticated: user is null and isAuthenticated false.
C18_SignOutReported ==
  (phase = "mounted" /\ ~authDue /\ ~isValid(stores[hookPb].token)) =>
    (user = NoRecord /\ ~useAuthIsAuthenticated)

\* C19: in a mounted component whose effect found no valid token, once a
\* sign-in on the handle has succeeded useAuth reports authenticated with
\* the signed-in record as user.
C19_SignInReported ==
  (/\ phase = "mounted" /\ checked
   /\ lastOp.kind = "signIn" /\ lastOp.failure = "none" /\ lastOp.h = hookPb
   /\ isValid(stores[hookPb].token)) =>
    (useAuthIsAuthenticated /\ user = stores[hookPb].record)

(***************************************************************************)
(* Claims about updateSession.                                             *)
(***************************************************************************)
\* C20: updateSession always returns the pass-through response; it clears
\* the pb_auth cookie when the request's cookie carries an invalid or
\* expired token, and leaves the cookie alone when the token is valid or the
\* request has no pb_auth cookie.
C20_InvalidTokenClearsCookie ==
  edge.seen =>
    /\ edge.outcome = "next"
    /\ edge.cookie = NoCookie => ~edge.deleted
    /\ edge.cookie.kind = "auth" =>
         (edge.deleted <=> ~isValid(loadFromCookie(edge.cookie).token))

(***************************************************************************)
(* Claims about the chat server functions.                                 *)
(***************************************************************************)
RECURSIVE Flatten(_)
\* the bytes a reader of the output channel gets from a sequence of chunks
Flatten(chunks) ==
  IF chunks = <<>> THEN <<>> ELSE Head(chunks) \o Flatten(Tail(chunks))

RECURSIVE DeltaTexts(_)
\* the text deltas of a fragment sequence, concatenated in arrival order
DeltaTexts(frags) ==
  IF frags = <<>> THEN <<>>
  ELSE (IF Head(frags).choice /\ Head(frags).delta
          THEN Head(frags).content ELSE <<>>) \o DeltaTexts(Tail(frags))

C23_AggregatedContent ==
  (mode = "chat" /\ pc = "done" /\ response.kind = "return") =>
    /\ remoteCalls = 1
    /\ ~remoteReq.stream
    /\ remoteReq.model = (IF body.model = "absent" THEN defaultModel
                          ELSE body.model)
    /\ remoteReq.messages = body.messages
    /\ Len(remote) = 1
    /\ response.content = (IF remote[1].choice /\ remote[1].delta
                             THEN remote[1].content ELSE <<>>)

\* C23 witness: a request naming its own model got a response without choices
C23_Witness ==
  /\ mode = "chat" /\ pc = "done" /\ body.model = "custom"
  /\ remote = <<NoChoice>> /\ response = FnReturn(<<>>)
  /\ remoteReq.model = "custom" /\ remoteCalls = 1

(***************************************************************************)
(* Claims about signUpWithEmail.                                           *)
(***************************************************************************)
\* the helper call pending at index i settles in this step
Settles(i) == i \in 1..Len(ops) /\ ops' = RemoveAt(ops, i)

\* C26: signUpWithEmail sends create-account strictly before authenticate and
\* authenticate only after create succeeded.  When create fails the result is
\* {data: null, error}, no authenticate request was sent and token and cookie
\* are unchanged; when authenticate fails after a successful create the
\* result is {data: null, error} and the handle's auth store is as it was
\* (an unauthenticated handle stays unauthenticated); on success data.user is
\* the created record and the handle is authenticated.
C26_SignUpCreateThenAuthenticate ==
  [][\A i \in 1..MaxPending :
       /\ (i \in 1..Len(ops) /\ ops[i].kind = "signUp") =>
            ops[i].calls = (IF ops[i].stage = "create" THEN 1 ELSE 2)
       /\ (i \in 1..Len(ops') /\ ops'[i].kind = "signUp"
             /\ ops'[i].stage = "auth") =>
            \/ i \in 1..Len(ops) /\ ops[i] = ops'[i]
            \/ i \in 1..Len(ops) /\ ops[i] = [ops'[i] EXCEPT !.stage = "create",
                                                              !.calls = 1]
            \/ i + 1 \in 1..Len(ops) /\ ops[i + 1] = ops'[i]
       /\ (Settles(i) /\ ops[i].kind = "signUp") =>
            /\ lastOp'.kind = "signUp" /\ lastOp'.outcome = "resolved"
            /\ lastOp'.calls = ops[i].calls
            /\ ops[i].stage = "create" =>
                 /\ lastOp'.data = "null" /\ lastOp'.error # "none"
                 /\ lastOp'.calls = 1
                 /\ stores' = stores /\ docCookie' = docCookie
            /\ (ops[i].stage = "auth" /\ lastOp'.error # "none") =>
                 /\ lastOp'.data = "null" /\ lastOp'.calls = 2
                 /\ stores' = stores /\ docCookie' = docCookie
            /\ lastOp'.error = "none" =>
                 /\ ops[i].stage = "auth" /\ lastOp'.calls = 2
                 /\ lastOp'.data = "user"
                 /\ lastOp'.user = RecordOf(ops[i].user)
                 /\ stores'[ops[i].h].record = RecordOf(ops[i].user)
                 /\ isValid(stores'[ops[i].h].token)]_vars

\* C26 witness: a sign-up whose authenticate step failed after a successful
\* create has left an unauthenticated handle
C26_Witness ==
  /\ lastOp.kind = "signUp" /\ lastOp.error = "backend" /\ lastOp.calls = 2
  /\ lastOp.h # 0 /\ stores[lastOp.h] = EmptyStore

FetchSettles(k) ==
  /\ k \in 1..Len(fetches) /\ fetches[k].state = "pending"
  /\ k \in 1..Len(fetches') /\ fetches'[k].state # "pending"

\* every started fetch has settled
AllSettled == \A k \in 1..Len(fetches) : fetches[k].state # "pending"

\* C21: a fetch that resolves or rejects after the component was torn down
\* is discarded: no setter of data, error or loading is called after the
\* teardown, for fetches the effect started and for fetches refetch()
\* started.
C21_NoUpdateAfterTeardown == lateUpdates = {}

\* C27: a dependency change cancels the effect-started fetch in flight: a
\* superseded effect fetch never writes data or error and never sets loading
\* to false; of the effect-started fetches only the one of the latest
\* effect run updates the state, and when it settles loading becomes false.
C27_SupersededFetchCancelled ==
  [][\A k \in 1..MaxFetches :
       /\ (k \in 1..Len(fetches') /\ fetches'[k].origin = "effect"
             /\ \E j \in (k + 1)..Len(fetches') : fetches'[j].origin = "effect") =>
            fetches'[k].cancelled
       /\ (FetchSettles(k) /\ fetches[k].origin = "effect"
             /\ \E j \in (k + 1)..Len(fetches) : fetches[j].origin = "effect") =>
            UNCHANGED <<qData, qError, qLoading, lateUpdates>>
       /\ (FetchSettles(k) /\ fetches[k].origin = "effect"
             /\ consumer = "mounted"
             /\ ~\E j \in (k + 1)..Len(fetches) : fetches[j].origin = "effect") =>
            /\ qLoading' = FALSE
            /\ fetches'[k].state = "resolved" => qData' = k /\ qError' = qError
            /\ fetches'[k].state = "rejected" => qError' = k /\ qData' = qData]_vars

\* C27 witness: the first effect fetch resolved after a dependency change
\* had superseded it; data is still null and loading still true
C27_Witness ==
  /\ consumer = "mounted" /\ Len(fetches) = 2
  /\ fetches[1] = [origin |-> "effect", cancelled |-> TRUE, state |-> "resolved"]
  /\ fetches[2] = [origin |-> "effect", cancelled |-> FALSE, state |-> "pending"]
  /\ qData = 0 /\ qLoading

\* C28: in a mounted component, once every fetch in flight has settled, data
\* holds the result of the most recently started fetch (when that one
\* resolved) and loading is false, whatever the interleaving of refetch()
\* calls and effect-started fetches.
C28_LatestFetchWins ==
  (consumer = "mounted" /\ fetches # <<>> /\ AllSettled) =>
    /\ ~qLoading
    /\ fetches[Len(fetches)].state = "resolved" => qData = Len(fetches)

(***************************************************************************)
(* Claims about usePocketBaseMutation.                                     *)
(***************************************************************************)
\* mutate call j settles in this step
MutationSettles(j) ==
  /\ j \in 1..Len(mutations) /\ mutations[j] = "pending"
  /\ mutations'[j] # "pending"

\* what C29 says of a call before the handle is ready, of a failing call and
\* of loading
MutateBasics ==
  /\ (consumer = "rendered" /\ mLast' # mLast) =>
       /\ mLast'.value = "null" /\ ~mLast'.called
       /\ mError' = NotReadyError
       /\ mutations' = mutations /\ mLoading' = mLoading
  /\ \A j \in 1..MaxMutations :
       (MutationSettles(j) /\ consumer = "mounted") =>
         /\ mLast'.id = j /\ mLast'.called
         /\ mLoading' = FALSE
         /\ mutations'[j] = "rejected" =>
              (mLast'.value = "null" /\ mError' = j)
         /\ mutations'[j] = "resolved" => mLast'.value = "result"

\* C29 (as claimed): mutate never rejects; before the handle is ready it
\* returns null, sets error to "PocketBase not ready" and does not call
\* mutationFn; a failing mutationFn gives null and error set to the failure;
\* a succeeding one gives the result with error null; loading is false once
\* mutate has settled.
C29_MutateSettlesClean ==
  [][/\ MutateBasics
     /\ \A j \in 1..MaxMutations :
          (MutationSettles(j) /\ consumer = "mounted"
             /\ mutations'[j] = "resolved") => mError' = NoError]_vars

\* C29 (amended): as claimed, except that a succeeding mutate leaves error as
\* it is: null when it is the only call in flight, and the failure of an
\* overlapping mutate call when one failed after this call started.
C29_MutateSettles ==
  [][/\ MutateBasics
     /\ \A j \in 1..MaxMutations :
          (MutationSettles(j) /\ consumer = "mounted"
             /\ mutations'[j] = "resolved") =>
            /\ mError' = mError
            /\ mError' # NoError =>
                 /\ mError' \in 1..Len(mutations) /\ mError' # j
                 /\ mutations[mError'] = "rejected"
            /\ (\A i \in 1..Len(mutations) : i # j => mutations[i] = "resolved")
                 => mError' = NoError]_vars

\* C29 witness: the second of two overlapping mutate calls failed, then the
\* first one returned its result while error holds the second one's failure
C29_Witness ==
  /\ consumer = "mounted"
  /\ mutations = <<"resolved", "rejected">>
  /\ mLast = [id |-> 1, value |-> "result", called |-> TRUE]
  /\ mError = 2 /\ ~mLoading

(***************************************************************************)
(* Claims about the credits functions.                                     *)
(***************************************************************************)
\* call i ends in this step
SqlCallEnds(i) == i \in 1..Len(sqlCalls) /\ sqlCalls' = RemoveAt(sqlCalls, i)

====
